---- MODULE Spec2Model ----
(***************************************************************************)
(* Model of src/main.py: the PEX competitor research agent.                *)
(*                                                                         *)
(* Time is an integer number of days.  A datetime is a record              *)
(* [aware, t]: `aware' tells whether it carries a UTC offset, t is the     *)
(* instant.  Python refuses to order an offset-aware against an            *)
(* offset-naive datetime (TypeError), which the model keeps.               *)
(***************************************************************************)
EXTENDS Integers, Sequences, FiniteSets, TLC

(***************************************************************************)
(* Bounds of the model.                                                    *)
(***************************************************************************)
StartTime == 40
MaxTicks == 1
MaxBlocks == 1
DateSpread == 1
MaxAnn == 2

(***************************************************************************)
(* Program constants.                                                      *)
(***************************************************************************)
MAX_LOOKBACK_DAYS == 30
DEFAULT_LOOKBACK_DAYS == 7
\* importance_score threshold 0.3, in hundredths
SCORE_THRESHOLD == 30

MaxTime == StartTime + MaxTicks

VARIABLES
    pc,            \* position of run(): start, collect, scrape, fetched, analyze,
                   \* report, save, advance, Done, Failed
    now,           \* the clock, datetime.now()
    marker,        \* content of last_run_timestamp.txt
    reports,       \* the reports directory: set of [date, content, run]
    run,           \* 1 for the first invocation followed, 2 for the next
    since,         \* since_date of the current run
    siteIdx,       \* position of collect_announcements in Websites
    pathIdx,       \* number of news paths fetched so far for the current site
    raw,           \* raw_announcements still to analyze for the current site
    announcements, \* all_announcements
    report,        \* the report text built by generate_report
    page,          \* blocks of the page of the last fetch (first selector
                   \* that matched anything), <<>> when it gave no page
    emitted,       \* indexes of the blocks of `page' that became candidates
    hist,          \* history of the current run (see HistInit)
    prev,          \* what the previous invocation left: [done, fetchAt]
    rptIn,         \* input of generate_report (report builder in isolation)
    rptOut,        \* its output
    rptPc

runVars == <<pc, now, marker, reports, run, since, siteIdx, pathIdx, raw,
             announcements, report, page, emitted, hist, prev>>
rptVars == <<rptIn, rptOut, rptPc>>
vars == <<pc, now, marker, reports, run, since, siteIdx, pathIdx, raw,
          announcements, report, page, emitted, hist, prev,
          rptIn, rptOut, rptPc>>

(***************************************************************************)
(* Source registry.                                                        *)
(***************************************************************************)
\* self.companies, flattened in iteration order: company of each website
Websites == << [company |-> "Uponor", url |-> "https://www.uponor.com"],
               [company |-> "Uponor", url |-> "https://www.georgfischer.com"],
               [company |-> "Viega",  url |-> "https://www.viega.com"] >>

news_paths == <<"/news", "/press", "/press-releases", "/media", "/newsroom",
                "/media-center">>

(***************************************************************************)
(* Datetimes and their text form.                                          *)
(***************************************************************************)
Naive(t) == [aware |-> FALSE, t |-> t]
Aware(t) == [aware |-> TRUE, t |-> t]

\* a date string: form is "naive" (2024-01-01T00:00:00), "utcZ" (trailing Z),
\* "offset" (trailing +00:00) or "garbage" (anything fromisoformat rejects)
DateStr(form, t) == [form |-> form, t |-> t]

\* date_str.replace('Z', '+00:00')
ReplaceZ(s) == IF s.form = "utcZ" THEN DateStr("offset", s.t) ELSE s

\* datetime.fromisoformat: [ok, dt]
fromisoformat(s) ==
    CASE s.form = "naive"  -> [ok |-> TRUE, dt |-> Naive(s.t)]
      [] s.form = "offset" -> [ok |-> TRUE, dt |-> Aware(s.t)]
      [] OTHER             -> [ok |-> FALSE, dt |-> Naive(0)]

\* a < b on datetimes raises TypeError when exactly one of them is aware
CompareRaises(a, b) == a.aware # b.aware

\* datetime.isoformat() of a naive datetime: fixed width, zero padded
isoformat(t) == <<t \div 10, t % 10>>

\* Python's order on strings and tuples: lexicographic, a proper prefix is less
RECURSIVE LexLess(_, _)
LexLess(a, b) ==
    IF a = <<>> THEN b # <<>>
    ELSE IF b = <<>> THEN FALSE
    ELSE IF Head(a) # Head(b) THEN Head(a) < Head(b)
    ELSE LexLess(Tail(a), Tail(b))

\* the characters of the company names, as code points
CompanyCode(c) ==
    IF c = "Uponor" THEN <<85, 112, 111, 110, 111, 114>>
    ELSE <<86, 105, 101, 103, 97>>

(***************************************************************************)
(* Run-window tracker.                                                     *)
(***************************************************************************)
\* The timestamp file: exists tells whether os.path.exists finds it, content
\* is the date string it holds.  update_timestamp writes a naive isoformat;
\* a write that fails after open(..., 'w') leaves the file truncated.
NoFile == [exists |-> FALSE, content |-> DateStr("garbage", 0)]
Truncated == [exists |-> TRUE, content |-> DateStr("garbage", 0)]
Stored(t) == [exists |-> TRUE, content |-> DateStr("naive", t)]

\* variant: the 30-day clamp is missing
get_last_run_timestamp_unclamped(m, n, readOutcome) ==
    LET parsed == fromisoformat(m.content)
    IN  IF m.exists /\ readOutcome = "ok" /\ parsed.ok /\ ~parsed.dt.aware
        THEN parsed.dt
        ELSE Naive(n - DEFAULT_LOOKBACK_DAYS)

\* get_last_run_timestamp with the file m, the clock n and the outcome of
\* reading the file ("ok", or "error" when open/read raises)
get_last_run_timestamp(m, n, readOutcome) ==
    LET max_lookback == Naive(n - MAX_LOOKBACK_DAYS)
        fallback == Naive(n - DEFAULT_LOOKBACK_DAYS)
        parsed == fromisoformat(m.content)
    IN  IF m.exists
        THEN IF readOutcome # "ok" THEN fallback
             ELSE IF ~parsed.ok THEN fallback
             ELSE IF CompareRaises(parsed.dt, max_lookback) THEN fallback
             ELSE IF parsed.dt.t < max_lookback.t THEN max_lookback
             ELSE parsed.dt
        ELSE fallback

\* variant: the write is skipped
update_timestamp_skipped(m, n, io) == m

\* update_timestamp with the outcome of the write: the file afterwards
update_timestamp(m, n, io) ==
    CASE io = "ok"           -> Stored(n)
      [] io = "write_failed" -> Truncated
      [] OTHER               -> m

(***************************************************************************)
(* Candidate extractor (the body of scrape_website_news for one page).     *)
(***************************************************************************)
\* a matched block: title tells whether a heading or link element exists,
\* hasDate whether a <time> element exists, ds is its date string
Block(title, hasDate, ds) == [title |-> title, hasDate |-> hasDate, ds |-> ds]

\* article_date of a block parsed at instant n
ArticleDate(b, n) ==
    LET parsed == fromisoformat(ReplaceZ(b.ds))
    IN  IF b.hasDate /\ parsed.ok THEN parsed.dt ELSE Naive(n)

\* variant: the comparison with since_date is missing
ProcessBlockNoWindow(b, sinceDate, n) ==
    IF ~b.title THEN "skip" ELSE "emit"

\* what the loop body does with one block: "skip" (no title), "error" (the
\* body raised and the block was skipped with a warning), "old" or "emit"
ProcessBlock(b, sinceDate, n) ==
    IF ~b.title THEN "skip"
    ELSE IF CompareRaises(ArticleDate(b, n), sinceDate) THEN "error"
    ELSE IF ArticleDate(b, n).t >= sinceDate.t THEN "emit"
    ELSE "old"

\* indexes of the blocks of page p that are appended to announcements
EmittedIdx(p, sinceDate, n) ==
    {i \in 1..Len(p) : ProcessBlock(p[i], sinceDate, n) = "emit"}

Candidate(company, i, b, n) ==
    [company |-> company, title |-> i, date |-> isoformat(ArticleDate(b, n).t)]

RECURSIVE ExtractFrom(_, _, _, _, _)
ExtractFrom(p, i, company, sinceDate, n) ==
    IF i > Len(p) THEN <<>>
    ELSE (IF ProcessBlock(p[i], sinceDate, n) = "emit"
          THEN <<Candidate(company, i, p[i], n)>> ELSE <<>>)
         \o ExtractFrom(p, i + 1, company, sinceDate, n)

\* the candidates of page p, in page order
Extract(p, company, sinceDate, n) == ExtractFrom(p, 1, company, sinceDate, n)

(***************************************************************************)
(* Significance classifier integration.                                    *)
(***************************************************************************)
\* The replacement fields of the f-string prompt, in order: what is formatted
\* and the format spec after the colon.  The braces of the JSON example are
\* not doubled, so they open a replacement field whose expression is the
\* string literal "importance_score" and whose format spec is the rest of
\* the example up to the closing brace.
PromptFields ==
    << [expr |-> "announcement['company']", spec |-> ""],
       [expr |-> "announcement['title']",   spec |-> ""],
       [expr |-> "announcement['content']", spec |-> ""],
       [expr |-> "announcement['date']",    spec |-> ""],
       [expr |-> "announcement['source']",  spec |-> ""],
       [expr |-> "'importance_score'",
        spec |-> " 0.0, 'category': 'Category', ... 'should_include': true "] >>

\* str.__format__ accepts the empty spec; none of the specs above is in the
\* [[fill]align][width][.precision][s] mini-language otherwise
StrFormatAccepts(spec) == spec = ""

\* evaluating the f-string: "ok", or "ValueError" (Invalid format specifier)
FormatPrompt ==
    IF \A i \in 1..Len(PromptFields) : StrFormatAccepts(PromptFields[i].spec)
    THEN "ok" ELSE "ValueError"

Scores == {20, 30, 80}

\* what the classifier call would answer
ClassifierOutcomes ==
    {[kind |-> k, should_include |-> FALSE, score |-> 0] :
        k \in {"call_failure", "malformed_json"}}
    \cup {[kind |-> "result", should_include |-> f, score |-> s] :
            f \in BOOLEAN, s \in Scores}

\* the classifier is asked only once the prompt is built
NotCalled == [kind |-> "not_called", should_include |-> FALSE, score |-> 0]

CallOutcomes == IF FormatPrompt = "ok" THEN ClassifierOutcomes ELSE {NotCalled}

Announcement(c, o) ==
    [company |-> c.company, title |-> c.title, date |-> c.date,
     score |-> o.score]

NoAnnouncement == [company |-> "", title |-> 0, date |-> <<>>, score |-> 0]

\* analyze_with_openai for candidate c when the classifier would answer o:
\* kind is "raise" (an exception leaves the method), "none" or "announcement"
analyze_with_openai(c, o) ==
    IF FormatPrompt # "ok"
    THEN [kind |-> "raise", ann |-> NoAnnouncement]
    ELSE IF o.kind # "result"
    THEN [kind |-> "none", ann |-> NoAnnouncement]
    ELSE IF o.should_include /\ o.score > SCORE_THRESHOLD
    THEN [kind |-> "announcement", ann |-> Announcement(c, o)]
    ELSE [kind |-> "none", ann |-> NoAnnouncement]

(***************************************************************************)
(* Report builder.                                                         *)
(***************************************************************************)
\* the sort key (x.company, x.date) as one sequence per component
KeyLess(a, b) ==
    \/ LexLess(CompanyCode(a.company), CompanyCode(b.company))
    \/ /\ a.company = b.company
       /\ LexLess(a.date, b.date)

\* insert x into the descending list s after every element not less than it
\* (list.sort(reverse=True) keeps the order of equal elements)
RECURSIVE InsertDesc(_, _)
InsertDesc(x, s) ==
    IF s = <<>> THEN <<x>>
    ELSE IF KeyLess(Head(s), x) THEN <<x>> \o s
    ELSE <<Head(s)>> \o InsertDesc(x, Tail(s))

RECURSIVE InsertAsc(_, _)
InsertAsc(x, s) ==
    IF s = <<>> THEN <<x>>
    ELSE IF KeyLess(x, Head(s)) THEN <<x>> \o s
    ELSE <<Head(s)>> \o InsertAsc(x, Tail(s))

RECURSIVE SortAscFrom(_, _, _)
SortAscFrom(s, i, acc) ==
    IF i > Len(s) THEN acc ELSE SortAscFrom(s, i + 1, InsertAsc(s[i], acc))

\* variant: reverse=True is missing
SortAscending(s) == SortAscFrom(s, 1, <<>>)

RECURSIVE SortDescFrom(_, _, _)
SortDescFrom(s, i, acc) ==
    IF i > Len(s) THEN acc ELSE SortDescFrom(s, i + 1, InsertDesc(s[i], acc))

\* announcements.sort(key=lambda x: (x.company, x.date), reverse=True)
SortDesc(s) == SortDescFrom(s, 1, <<>>)

\* the companies dict: a sequence of [company, items] in insertion order
RECURSIVE GroupFrom(_, _, _)
GroupFrom(s, i, acc) ==
    IF i > Len(s) THEN acc
    ELSE LET a == s[i]
             hit == {k \in 1..Len(acc) : acc[k].company = a.company}
         IN  IF hit = {}
             THEN GroupFrom(s, i + 1,
                            Append(acc, [company |-> a.company, items |-> <<a>>]))
             ELSE LET k == CHOOSE k \in hit : TRUE
                  IN  GroupFrom(s, i + 1,
                                [acc EXCEPT ![k].items = Append(@, a)])

GroupByCompany(s) == GroupFrom(s, 1, <<>>)

\* generate_report: the fixed text for no announcements, else the count of
\* the executive summary and one section per company of the dict
generate_report(anns) ==
    IF anns = <<>>
    THEN [kind |-> "empty", count |-> 0, sections |-> <<>>]
    ELSE [kind |-> "full", count |-> Len(anns),
          sections |-> GroupByCompany(SortDesc(anns))]

\* save_report with the outcome of the write: the reports directory
\* afterwards (one file per date, overwritten)
save_report(store, rep, n, r, io) ==
    LET others == {f \in store : f.date # n}
    IN  CASE io = "ok"           -> others \cup {[date |-> n, content |-> rep.kind, run |-> r]}
          [] io = "write_failed" -> others \cup {[date |-> n, content |-> "truncated", run |-> r]}
          [] OTHER               -> store

(***************************************************************************)
(* Inputs.                                                                 *)
(***************************************************************************)
SeqsUpTo(S, n) == UNION {[1..k -> S] : k \in 0..n}

\* the blocks a page can hold: without title, undated, with an unparseable
\* date, dated the day before the window start, at the window start and the
\* day after it, and dated at the window start with a trailing Z
BlockSet(sinceDate) ==
    {Block(FALSE, FALSE, DateStr("garbage", 0)),
     Block(TRUE, FALSE, DateStr("garbage", 0)),
     Block(TRUE, TRUE, DateStr("garbage", 0)),
     Block(TRUE, TRUE, DateStr("utcZ", sinceDate.t))}
    \cup {Block(TRUE, TRUE, DateStr("naive", t)) :
            t \in {sinceDate.t - 1, sinceDate.t, sinceDate.t + 1}}

\* what requests.get and the parsing of the page can produce for one path:
\* a RequestException (unreachable, timeout), a status other than 200, any
\* other exception, or a 200 page with its blocks
Responses(sinceDate) ==
    {[kind |-> k, page |-> <<>>] :
        k \in {"transport_error", "status", "other_error"}}
    \cup {[kind |-> "ok", page |-> p] :
            p \in SeqsUpTo(BlockSet(sinceDate), MaxBlocks)}

IOOutcomes == {"ok", "open_failed", "write_failed"}

InitMarkers ==
    {NoFile, Truncated}
    \cup {Stored(t) : t \in {StartTime - MAX_LOOKBACK_DAYS - 1,
                             StartTime - MAX_LOOKBACK_DAYS,
                             StartTime - 1}}

NoFetch == 0 - 1

\* history of a run that starts with the timestamp file m
HistInit(m) ==
    [steps |-> <<>>,            \* steps of run() completed, in order
     markerAtStart |-> m,
     readOutcome |-> "none",
     saveIo |-> "none",
     advanceIo |-> "none",
     advanceAt |-> -1,
     markerBeforeAdvance |-> m,
     failedIn |-> "none",
     visited |-> <<>>,          \* sites whose scrape returned
     fetched |-> <<>>,          \* paths fetched for the current site
     aborted |-> FALSE,         \* the last fetch raised another exception
     okSeen |-> FALSE,          \* a path of the current site returned 200
     candSeen |-> FALSE,        \* a path of the current site gave a candidate
     fetchedAfterOk |-> FALSE,  \* the last fetch followed a 200 page
     fetchedAfterCand |-> FALSE,\* the last fetch followed a candidate
     fetchAt |-> NoFetch,       \* instant of the latest fetch of the run
     analysed |-> FALSE,
     lastOutcome |-> [kind |-> "none", should_include |-> FALSE, score |-> 0],
     lastResult |-> "none"]

(***************************************************************************)
(* The run coordinator and the collection orchestrator.                    *)
(***************************************************************************)
Init ==
    /\ pc = "start"
    /\ now = StartTime
    /\ marker \in InitMarkers
    /\ reports = {}
    /\ run = 1
    /\ since = Naive(0)
    /\ siteIdx = 1
    /\ pathIdx = 0
    /\ raw = <<>>
    /\ announcements = <<>>
    /\ report = [kind |-> "none", count |-> 0, sections |-> <<>>]
    /\ page = <<>>
    /\ emitted = {}
    /\ hist = HistInit(marker)
    /\ prev = [done |-> FALSE, fetchAt |-> NoFetch]
    /\ rptIn = <<>>
    /\ rptOut = [kind |-> "none", count |-> 0, sections |-> <<>>]
    /\ rptPc = "off"

\* time passes; the clock is read by get_last_run_timestamp, by the
\* extraction of a fetched page, by save_report and by update_timestamp, so
\* it is enough to let it advance right before these
Tick ==
    /\ pc \in {"start", "scrape", "save", "advance"}
    /\ now < MaxTime
    /\ now' = now + 1
    /\ UNCHANGED <<pc, marker, reports, run, since, siteIdx, pathIdx, raw,
                   announcements, report, page, emitted, hist, prev>>
    /\ UNCHANGED rptVars

\* run(): since_date = self.get_last_run_timestamp()
GetLastRunTimestamp ==
    /\ pc = "start"
    /\ \E r \in {"ok", "error"} :
         /\ since' = get_last_run_timestamp(marker, now, r)
         /\ hist' = [hist EXCEPT !.steps = Append(@, "read"),
                                 !.readOutcome = r]
    /\ pc' = "collect"
    /\ UNCHANGED <<now, marker, reports, run, siteIdx, pathIdx, raw,
                   announcements, report, page, emitted, prev>>
    /\ UNCHANGED rptVars

\* run(): announcements = self.collect_announcements(since_date), up to the
\* first website
CollectAnnouncements ==
    /\ pc = "collect"
    /\ announcements' = <<>>
    /\ siteIdx' = 1
    /\ pathIdx' = 0
    /\ pc' = "scrape"
    /\ UNCHANGED <<now, marker, reports, run, since, raw, report, page,
                   emitted, hist, prev>>
    /\ UNCHANGED rptVars

\* variant: the break is missing
BreakNever(cands) == FALSE

\* break after a page that left announcements non-empty
BreakOnCandidates(cands) == cands # <<>>

\* scrape_website_news: one iteration of the loop over news_paths for the
\* current site, up to the end of the loop over the articles
FetchPath ==
    /\ pc = "scrape"
    /\ pathIdx < Len(news_paths)
    /\ \E resp \in Responses(since) :
         LET path == pathIdx + 1
             company == Websites[siteIdx].company
             cands == IF resp.kind = "ok"
                      THEN Extract(resp.page, company, since, now) ELSE <<>>
         IN  /\ pathIdx' = path
             /\ raw' = raw \o cands
             /\ pc' = "fetched"
             /\ page' = resp.page
             /\ emitted' = EmittedIdx(resp.page, since, now)
             /\ hist' = [hist EXCEPT
                    !.fetched = Append(@, path),
                    !.fetchedAfterOk = hist.okSeen,
                    !.fetchedAfterCand = hist.candSeen,
                    !.okSeen = @ \/ resp.kind = "ok",
                    !.candSeen = @ \/ cands # <<>>,
                    !.fetchAt = now,
                    !.aborted = resp.kind = "other_error"]
    /\ UNCHANGED <<now, marker, reports, run, since, siteIdx,
                   announcements, report, prev>>
    /\ UNCHANGED rptVars

\* scrape_website_news: the end of an iteration: break when announcements is
\* non-empty, leave through the outer except, go on with the next path, or
\* return after the last one; the page and its soup are dropped
PathDone ==
    /\ pc = "fetched"
    /\ LET stop == \/ hist.aborted
                    \/ BreakOnCandidates(raw)
                    \/ pathIdx = Len(news_paths)
       IN  /\ pc' = IF stop THEN "analyze" ELSE "scrape"
           /\ hist' = [hist EXCEPT
                  !.aborted = FALSE,
                  !.fetchedAfterOk = FALSE,
                  !.fetchedAfterCand = FALSE,
                  !.visited = IF stop THEN Append(@, siteIdx) ELSE @]
    /\ page' = <<>>
    /\ emitted' = {}
    /\ UNCHANGED <<now, marker, reports, run, since, siteIdx, pathIdx, raw,
                   announcements, report, prev>>
    /\ UNCHANGED rptVars

\* variant: the handler advances the window
OnExceptionAdvances(m, n) == Stored(n)

\* run(): except Exception: log and re-raise; the timestamp file afterwards
OnException(m, n) == m

\* collect_announcements: analyzed = self.analyze_with_openai(raw_announcement)
\* for the next raw announcement; an exception leaves collect and run()
AnalyzeCandidate ==
    /\ pc = "analyze"
    /\ raw # <<>>
    /\ \E o \in CallOutcomes :
         LET r == analyze_with_openai(Head(raw), o)
         IN  /\ hist' = [hist EXCEPT
                    !.analysed = TRUE,
                    !.lastOutcome = o,
                    !.lastResult = r.kind,
                    !.failedIn = IF r.kind = "raise" THEN "collect" ELSE @]
             /\ pc' = IF r.kind = "raise" THEN "Failed" ELSE "analyze"
             /\ raw' = IF r.kind = "raise" THEN raw ELSE Tail(raw)
             /\ announcements' = IF r.kind = "announcement"
                                 THEN Append(announcements, r.ann)
                                 ELSE announcements
             /\ marker' = IF r.kind = "raise"
                          THEN OnException(marker, now) ELSE marker
    /\ UNCHANGED <<now, reports, run, since, siteIdx, pathIdx,
                   report, page, emitted, prev>>
    /\ UNCHANGED rptVars

\* collect_announcements: time.sleep(2), then the next website, or the return
SiteDone ==
    /\ pc = "analyze"
    /\ raw = <<>>
    /\ IF siteIdx < Len(Websites)
       THEN /\ siteIdx' = siteIdx + 1
            /\ pathIdx' = 0
            /\ pc' = "scrape"
            /\ hist' = [hist EXCEPT !.fetched = <<>>,
                                    !.okSeen = FALSE,
                                    !.candSeen = FALSE,
                                    !.fetchedAfterOk = FALSE,
                                    !.fetchedAfterCand = FALSE]
       ELSE /\ pc' = "report"
            /\ hist' = [hist EXCEPT !.steps = Append(@, "collect"),
                                    !.fetched = <<>>,
                                    !.okSeen = FALSE,
                                    !.candSeen = FALSE,
                                    !.fetchedAfterOk = FALSE,
                                    !.fetchedAfterCand = FALSE]
            /\ UNCHANGED <<siteIdx, pathIdx>>
    /\ UNCHANGED <<now, marker, reports, run, since, raw, announcements,
                   report, page, emitted, prev>>
    /\ UNCHANGED rptVars

\* variant: update_timestamp is called before save_report
StepAfterAdvanceFirst(step) ==
    CASE step = "report"  -> "advance"
      [] step = "advance" -> "save"
      [] step = "save"    -> "Done"

\* run(): the statement that follows each of its last three steps
StepAfter(step) ==
    CASE step = "report"  -> "save"
      [] step = "save"    -> "advance"
      [] step = "advance" -> "Done"

\* run(): report = self.generate_report(announcements)
GenerateReport ==
    /\ pc = "report"
    /\ report' = generate_report(announcements)
    /\ hist' = [hist EXCEPT !.steps = Append(@, "build")]
    /\ pc' = StepAfter("report")
    /\ UNCHANGED <<now, marker, reports, run, since, siteIdx, pathIdx, raw,
                   announcements, page, emitted, prev>>
    /\ UNCHANGED rptVars

\* run(): self.save_report(report); an I/O error is logged and swallowed
SaveReport ==
    /\ pc = "save"
    /\ \E io \in IOOutcomes :
         /\ reports' = save_report(reports, report, now, run, io)
         /\ hist' = [hist EXCEPT !.steps = Append(@, "save"),
                                 !.saveIo = io]
    /\ pc' = StepAfter("save")
    /\ UNCHANGED <<now, marker, run, since, siteIdx, pathIdx, raw,
                   announcements, report, page, emitted, prev>>
    /\ UNCHANGED rptVars

\* run(): self.update_timestamp(); an I/O error is logged and swallowed
UpdateTimestamp ==
    /\ pc = "advance"
    /\ \E io \in IOOutcomes :
         /\ marker' = update_timestamp(marker, now, io)
         /\ hist' = [hist EXCEPT !.steps = Append(@, "advance"),
                                 !.advanceIo = io,
                                 !.advanceAt = now,
                                 !.markerBeforeAdvance = marker]
    /\ pc' = StepAfter("advance")
    /\ UNCHANGED <<now, reports, run, since, siteIdx, pathIdx, raw,
                   announcements, report, page, emitted, prev>>
    /\ UNCHANGED rptVars

\* the process is started again: only the two stores survive.  The model
\* follows an invocation and the one after it; what earlier invocations
\* left is in InitMarkers.
NextInvocation ==
    /\ pc \in {"Done", "Failed"}
    /\ run = 1
    /\ run' = run + 1
    /\ pc' = "start"
    /\ since' = Naive(0)
    /\ siteIdx' = 1
    /\ pathIdx' = 0
    /\ raw' = <<>>
    /\ announcements' = <<>>
    /\ report' = [kind |-> "none", count |-> 0, sections |-> <<>>]
    /\ page' = <<>>
    /\ emitted' = {}
    /\ hist' = HistInit(marker)
    /\ prev' = [done |-> pc = "Done",
                fetchAt |-> IF pc = "Done" THEN hist.fetchAt ELSE NoFetch]
    /\ UNCHANGED <<now, marker, reports>>
    /\ UNCHANGED rptVars

Next ==
    \/ Tick
    \/ GetLastRunTimestamp
    \/ CollectAnnouncements
    \/ FetchPath
    \/ PathDone
    \/ AnalyzeCandidate
    \/ SiteDone
    \/ GenerateReport
    \/ SaveReport
    \/ UpdateTimestamp
    \/ NextInvocation

Spec == Init /\ [][Next]_vars

(***************************************************************************)
(* The report builder on its own, for every small list of announcements.   *)
(***************************************************************************)
RptDates == 9..(9 + DateSpread)

RptAnnouncements ==
    {[company |-> c, title |-> i, date |-> isoformat(t), score |-> 80] :
        c \in {"Uponor", "Viega"}, i \in 1..2, t \in RptDates}

InitReport ==
    /\ pc = "off"
    /\ now = StartTime
    /\ marker = NoFile
    /\ reports = {}
    /\ run = 1
    /\ since = Naive(0)
    /\ siteIdx = 1
    /\ pathIdx = 0
    /\ raw = <<>>
    /\ announcements = <<>>
    /\ report = [kind |-> "none", count |-> 0, sections |-> <<>>]
    /\ page = <<>>
    /\ emitted = {}
    /\ hist = HistInit(NoFile)
    /\ prev = [done |-> FALSE, fetchAt |-> NoFetch]
    /\ rptIn \in SeqsUpTo(RptAnnouncements, MaxAnn)
    /\ rptOut = [kind |-> "none", count |-> 0, sections |-> <<>>]
    /\ rptPc = "in"

BuildReport ==
    /\ rptPc = "in"
    /\ rptOut' = generate_report(rptIn)
    /\ rptPc' = "out"
    /\ UNCHANGED rptIn
    /\ UNCHANGED runVars

NextReport == BuildReport

SpecReport == InitReport /\ [][NextReport]_vars

(***************************************************************************)
(* Properties.                                                             *)
(***************************************************************************)
StepsOfSuccess == <<"read", "collect", "build", "save", "advance">>

Count(seq, x) == Cardinality({i \in 1..Len(seq) : seq[i] = x})

\* the instant a digit string stands for
RECURSIVE DigitsValue(_)
DigitsValue(d) ==
    IF d = <<>> THEN 0 ELSE 10 * DigitsValue(SubSeq(d, 1, Len(d) - 1)) + d[Len(d)]

\* C1: a run that ends in Failed re-raised an exception of a step before the
\* advance, never called the advance, and left the stored marker as it was
\* when the run started.
C1_FailedRunKeepsMarker ==
    pc = "Failed" =>
        /\ hist.failedIn # "none"
        /\ Count(hist.steps, "advance") = 0
        /\ hist.advanceIo = "none"
        /\ marker = hist.markerAtStart

C1_Witness ==
    /\ pc = "Failed"
    /\ hist.failedIn = "collect"
    /\ hist.markerAtStart.exists
    /\ marker = hist.markerAtStart

\* C2 (as claimed): every run that reaches Done has overwritten the stored
\* marker exactly once, as its last step, and the stored marker is the
\* instant at which the advance ran.
C2_DoneMarkerIsAdvanceInstant ==
    pc = "Done" =>
        /\ hist.steps = StepsOfSuccess
        /\ marker = Stored(hist.advanceAt)

\* C2 (amended): every run that reaches Done has called the advance exactly
\* once, as its last step; the stored marker is the instant at which the
\* advance ran when the write succeeded, is unchanged when the file could
\* not be opened, and is left truncated when the write failed.
C2_DoneAdvancedOnce ==
    pc = "Done" =>
        /\ hist.steps = StepsOfSuccess
        /\ hist.advanceIo \in IOOutcomes
        /\ hist.advanceIo = "ok" => marker = Stored(hist.advanceAt)
        /\ hist.advanceIo = "open_failed" => marker = hist.markerBeforeAdvance
        /\ hist.advanceIo = "write_failed" => marker = Truncated

C2_Witness ==
    /\ pc = "Done"
    /\ hist.advanceIo = "write_failed"
    /\ hist.markerAtStart # Truncated
    /\ marker # Stored(hist.advanceAt)

\* C3: get_last_run_timestamp returns now - 30 days for a well-formed stored
\* timestamp older than that, the stored timestamp itself when it is not
\* older, and now - 7 days when the file is absent, malformed or unreadable;
\* the result is never older than now - 30 days and the read never fails.
\* (Stated where run() holds the result, before any further time passes.)
C3_WindowStart ==
    pc = "collect" =>
        LET m == marker
            n == now
            wellFormed == /\ m.exists
                          /\ hist.readOutcome = "ok"
                          /\ m.content.form = "naive"
        IN  /\ hist.readOutcome \in {"ok", "error"}
            /\ hist.failedIn # "read"
            /\ (wellFormed /\ m.content.t < n - MAX_LOOKBACK_DAYS)
                  => since = Naive(n - MAX_LOOKBACK_DAYS)
            /\ (wellFormed /\ m.content.t >= n - MAX_LOOKBACK_DAYS)
                  => since = Naive(m.content.t)
            /\ ~wellFormed => since = Naive(n - DEFAULT_LOOKBACK_DAYS)
            /\ since.t >= n - MAX_LOOKBACK_DAYS

C3_Witness ==
    /\ pc = "collect"
    /\ marker.exists
    /\ hist.readOutcome = "ok"
    /\ marker.content.form = "naive"
    /\ marker.content.t < now - MAX_LOOKBACK_DAYS
    /\ since = Naive(now - MAX_LOOKBACK_DAYS)

\* C4: the classification step yields an Announcement if and only if the
\* classifier output has should_include = true and importance_score > 0.3,
\* otherwise it yields nothing; every collected Announcement has a score
\* above 0.3.
C4_AnnouncementIffIncluded ==
    /\ hist.analysed =>
         /\ hist.lastResult \in {"announcement", "none"}
         /\ hist.lastResult = "announcement"
               <=> /\ hist.lastOutcome.kind = "result"
                   /\ hist.lastOutcome.should_include
                   /\ hist.lastOutcome.score > SCORE_THRESHOLD
    /\ \A i \in 1..Len(announcements) :
         announcements[i].score > SCORE_THRESHOLD

\* the timestamp the claim resolves for a block: its parsed ISO-8601 date,
\* a trailing Z included, else the instant of the extraction
ResolvedInstant(b, n) ==
    IF b.hasDate /\ b.ds.form \in {"naive", "utcZ", "offset"} THEN b.ds.t ELSE n

\* C5: every matched block with a title element is emitted as a candidate if
\* and only if its resolved timestamp is at or after sinceTimestamp.
C5_EmittedIffInWindow ==
    \A i \in 1..Len(page) :
        page[i].title =>
            (i \in emitted
               <=> ResolvedInstant(page[i], hist.fetchAt) >= since.t)

\* C6: collect never raises, whatever the fetches and the classifier do: it
\* visits every site of every company in order and returns normally.
C6_CollectNeverRaises ==
    /\ hist.failedIn # "collect"
    /\ pc \in {"report", "save", "advance", "Done"}
          => hist.visited = <<1, 2, 3>>

\* C7: for a non-empty list, build renders exactly one section per distinct
\* company, each section holds exactly the announcements of its company
\* (every input announcement once, in no other section), and within a
\* section the announcements are most recent first.
C7_SectionsPerCompany ==
    (rptPc = "out" /\ rptIn # <<>>) =>
        LET secs == rptOut.sections
            companiesIn == {rptIn[i].company : i \in 1..Len(rptIn)}
        IN  /\ rptOut.kind = "full"
            /\ rptOut.count = Len(rptIn)
            /\ {secs[k].company : k \in 1..Len(secs)} = companiesIn
            /\ Len(secs) = Cardinality(companiesIn)
            /\ \A k \in 1..Len(secs) :
                 LET items == secs[k].items
                 IN  /\ \A i \in 1..Len(items) :
                            items[i].company = secs[k].company
                     /\ \A a \in RptAnnouncements :
                            a.company = secs[k].company
                               => Count(items, a) = Count(rptIn, a)
                     /\ \A i, j \in 1..Len(items) :
                            i < j => DigitsValue(items[i].date)
                                        >= DigitsValue(items[j].date)

C7_Witness ==
    /\ rptPc = "out"
    /\ Len(rptIn) >= 2
    /\ Len(rptOut.sections) = 1
    /\ DigitsValue(rptIn[1].date) < DigitsValue(rptIn[2].date)
    /\ rptOut.sections[1].items[1] = rptIn[2]

\* the files of the report store written by the current run
OwnReports == {f \in reports : f.run = run}

\* C8 (as claimed): a run that has advanced the window marker, and so every
\* run that reaches Done, has persisted exactly one report artifact first.
C8_AdvanceImpliesReportStored ==
    Count(hist.steps, "advance") > 0 =>
        /\ Cardinality(OwnReports) = 1
        /\ \A f \in OwnReports : f.content = report.kind

\* C8 (amended): a run that has advanced the window marker has called
\* save_report exactly once, before the advance; the run's report is in the
\* store exactly when that write succeeded, and a failed write (logged, not
\* raised) leaves no report of the run, or a truncated one.
C8_AdvanceAfterSaveAttempt ==
    Count(hist.steps, "advance") > 0 =>
        /\ hist.steps = StepsOfSuccess
        /\ hist.saveIo \in IOOutcomes
        /\ hist.saveIo = "ok" =>
              /\ Cardinality(OwnReports) = 1
              /\ \A f \in OwnReports : f.content = report.kind
        /\ hist.saveIo = "open_failed" => OwnReports = {}
        /\ hist.saveIo = "write_failed" =>
              /\ Cardinality(OwnReports) = 1
              /\ \A f \in OwnReports : f.content = "truncated"

C8_Witness ==
    /\ pc = "Done"
    /\ hist.saveIo = "open_failed"
    /\ hist.advanceIo = "ok"
    /\ marker = Stored(hist.advanceAt)
    /\ OwnReports = {}

\* C9 (as claimed): the path trial of a site stops at the first path that
\* returns a status-200 page: no later path is fetched after it.
C9_NoFetchAfterOkPage == ~hist.fetchedAfterOk

\* C9 (amended): the paths of a site are fetched in the fixed order, and the
\* trial stops at the first path that yields a candidate: no later path is
\* fetched after it, while a status-200 page without candidates does not
\* stop the trial.
C9_NoFetchAfterCandidate ==
    /\ hist.fetched = [i \in 1..Len(hist.fetched) |-> i]
    /\ Len(hist.fetched) <= Len(news_paths)
    /\ ~hist.fetchedAfterCand
    /\ pc = "scrape" =>
          /\ ~hist.candSeen
          /\ raw = <<>>
          /\ Len(hist.fetched) < Len(news_paths)

C9_Witness ==
    /\ pc = "fetched"
    /\ hist.fetchedAfterOk
    /\ hist.candSeen
    /\ Len(hist.fetched) = 3

\* the blocks of the page that carry a date without UTC offset
NaiveDated(i) ==
    page[i].title /\ page[i].hasDate /\ page[i].ds.form = "naive"

\* C10 (as claimed): after a successful run, every dated article whose date
\* is at or after the instant at which that run fetched the sites is emitted
\* as a candidate by the next run.
C10_NoGapBetweenWindows ==
    prev.done =>
        \A i \in 1..Len(page) :
            (NaiveDated(i) /\ page[i].ds.t >= prev.fetchAt) => i \in emitted

\* C10 (amended): the marker stored by a successful run is the instant at
\* which the advance ran, which is no earlier than the instants at which the
\* run fetched its sites; a run emits no article dated before its window
\* start, so an article dated between the previous run's fetch and its
\* advance is not emitted.
C10_MarkerNotBeforeFetch ==
    /\ (pc = "Done" /\ hist.advanceIo = "ok") =>
          /\ marker.content.t >= hist.fetchAt
          /\ hist.fetchAt # NoFetch
    /\ \A i \in 1..Len(page) :
          (page[i].hasDate /\ page[i].ds.form \in {"naive", "utcZ"}
             /\ page[i].ds.t < since.t) => i \notin emitted

C10_Witness ==
    /\ prev.done
    /\ \E i \in 1..Len(page) :
          /\ NaiveDated(i)
          /\ page[i].ds.t >= prev.fetchAt
          /\ page[i].ds.t < since.t
          /\ since = Naive(marker.content.t)
          /\ i \notin emitted

====
